---- MODULE Spec2Model ----
(***************************************************************************)
(* Authentication flow of the Reflecta backend: AuthService                *)
(* (registerUser, loginUser, getUserProfile, checkLoginAttempts,           *)
(* recordLoginAttempt, generateToken), the auth controller that maps the   *)
(* service's results to HTTP responses, and authMiddleware.                *)
(*                                                                         *)
(* Every request runs in its own slot of `call`; each await of the code is *)
(* a suspension point, so each action below is one store or hasher         *)
(* operation together with the synchronous code that follows it up to the  *)
(* next await.  Time is counted in minutes.                                *)
(***************************************************************************)
EXTENDS Integers, Sequences, FiniteSets, TLC

(* ---------------------------- bounds ----------------------------------- *)
MaxCalls == 2          \* requests started in one behaviour
MaxTicks == 1          \* clock advances in one behaviour
MaxFaults == 1         \* store or hasher operations that fail in one behaviour
TickMinutes == 16      \* minutes per clock advance
EnvExpiresIn == 10     \* JWT_EXPIRES_IN of the environment, minutes (0: unset)

(* ------------------------ program constants ---------------------------- *)
Threshold == 5             \* attemptCount >= 5
WindowMinutes == 15        \* Date.now() - 15 * 60 * 1000
DefaultExpiresIn == 60     \* process.env.JWT_EXPIRES_IN || '1h'
SaltRounds == 10           \* bcrypt.genSalt(10)

(* ----------------------------- inputs ---------------------------------- *)
Procs == {1, 2}
Emails == {"a@x.com", "b@x.com"}
Passwords == {"Passw0rd!", "Wr0ng!pw"}
RegisterPasswords == {"Passw0rd!"}
Ips == {"ip1"}
Names == {"Ann"}
Secrets == {"", "s1"}          \* "" : JWT_SECRET unset (falsy in !secret)
SeedEmail == "a@x.com"
SeedPassword == "Passw0rd!"
SeedIps == {"ip1", "ip2"}
SeedCounts == {0, Threshold - 1}

None == <<>>
Some(x) == <<x>>

VARIABLES users, attempts, now, jwtSecret, call, last, calls, nfaults, issued, regOk,
          entries, tags, sd

vars == <<users, attempts, now, jwtSecret, call, last, calls, nfaults, issued, regOk,
         entries, tags, sd>>

(* ------------------------- external capabilities ----------------------- *)
\* bcrypt.hash(password, salt): a digest that is not the plaintext and that
\* bcrypt.compare recognises
BcryptHash(password, salt) == [algo |-> "bcrypt", rounds |-> SaltRounds,
                               salt |-> salt, of |-> password]

BcryptCompare(password, hash) == hash.of = password

JwtExpiresIn == IF EnvExpiresIn = 0 THEN DefaultExpiresIn ELSE EnvExpiresIn

\* variant: the payload does not carry the user's id
JwtSign_NoSubject(userId, secret, t) ==
    [wellFormed |-> TRUE, userId |-> 0, sig |-> secret, exp |-> t + JwtExpiresIn]

\* jwt.sign({ userId }, secret, { expiresIn })
JwtSign(userId, secret, t) ==
    [wellFormed |-> TRUE, userId |-> userId, sig |-> secret, exp |-> t + JwtExpiresIn]

\* jwt.verify(token, secret): "invalid" (JsonWebTokenError), "expired"
\* (TokenExpiredError) or "ok"; the signature is checked before the expiry
JwtVerify(token, secret, t) ==
    IF ~token.wellFormed \/ token.sig # secret THEN "invalid"
    ELSE IF t >= token.exp THEN "expired"
    ELSE "ok"

(* ------------------------------ store ---------------------------------- *)
\* prisma.user.findUnique({ where: { email } })
FindUserByEmail(email) ==
    IF \E u \in users : u.email = email
    THEN Some(CHOOSE u \in users : u.email = email)
    ELSE None

\* variant: findUnique without the select clause
SelectProfile_WholeRow(u) == u

\* prisma.user.findUnique({ where: { id }, select: { id, email, name, createdAt } })
SelectProfile(u) == [id |-> u.id, email |-> u.email, name |-> u.name,
                     createdAt |-> u.createdAt]

FindProfileById(userId) ==
    IF \E u \in users : u.id = userId
    THEN Some(SelectProfile(CHOOSE u \in users : u.id = userId))
    ELSE None

\* variant: a schema without @unique on User.email
UniqueEmailViolated_Unchecked(email) == FALSE

\* model User { email String @unique }: the insert is refused when a row
\* with the same email exists
UniqueEmailViolated(email) == \E u \in users : u.email = email

NewUserRow(email, name, passwordHash) ==
    [id |-> Cardinality(users) + 1, email |-> email, name |-> name,
     passwordHash |-> passwordHash, createdAt |-> now]

\* variant: the count is per email, whatever the address
CountMatches_AnyIp(row, email, ipAddress) ==
    /\ row.email = email
    /\ row.createdAt >= now - WindowMinutes
    /\ row.success = FALSE

\* the where clause of prisma.loginAttempt.count in checkLoginAttempts
CountMatches(row, email, ipAddress) ==
    /\ row.email = email
    /\ row.ipAddress = ipAddress
    /\ row.createdAt >= now - WindowMinutes
    /\ row.success = FALSE

CountRecentFailed(email, ipAddress) ==
    Cardinality({i \in 1..Len(attempts) : CountMatches(attempts[i], email, ipAddress)})

\* variant: a successful attempt is linked to the user of its email
NewAttemptRow_LinksUser(email, success, ipAddress, t) ==
    [email |-> email, ipAddress |-> ipAddress, success |-> success,
     createdAt |-> t,
     userId |-> IF success /\ \E u \in users : u.email = email
                THEN Some((CHOOSE u \in users : u.email = email).id)
                ELSE None]

\* the data of prisma.loginAttempt.create in recordLoginAttempt
NewAttemptRow(email, success, ipAddress, t) ==
    [email |-> email, ipAddress |-> ipAddress, success |-> success,
     createdAt |-> t, userId |-> None]

(* ------------------------------ process -------------------------------- *)
SdSignals == 2         \* signals delivered to the process (SIGINT, SIGTERM)
TimeoutSeconds == 10

\* the process of index.ts: the HTTP server, the database connection, the
\* invocations of gracefulShutdown with their forceExit timers, the seconds
\* since the first signal, the code given to process.exit (-1: none yet),
\* and a record of what happened
Process(server) ==
    [server |-> server, db |-> "connected",
     inv |-> [i \in 1..SdSignals |-> [pc |-> "idle", timer |-> "none", deadline |-> 0]],
     clock |-> 0, exit |-> -1, raised |-> FALSE, timedOut |-> FALSE,
     order |-> <<>>]

\* startServer has run: the server listens, no signal has arrived
Serving == Process("listening")

(* --------------------------- request slots ----------------------------- *)
NoResult == [status |-> 0, error |-> "", data |-> None]

Idle == [op |-> "none", pc |-> "idle", email |-> "", password |-> "", name |-> "",
         ip |-> "", header |-> None, userId |-> 0, user |-> None,
         passwordHash |-> None, validPassword |-> FALSE, attemptCount |-> -1,
         faults |-> {}, logs |-> {}, rows |-> 0, looked |-> FALSE,
         compared |-> FALSE, created |-> FALSE, nextCalled |-> FALSE,
         id |-> "", body |-> None, format |-> "", found |-> FALSE,
         wrote |-> FALSE, total |-> -1, result |-> NoResult]

ErrorResponse(status, message) == [status |-> status, error |-> message, data |-> None]

\* variant: the catch block rethrows whatever it caught
Rethrow_Leaks(err, fallback) == err

\* variant: every error caught becomes the operation's 500 error
Rethrow_AlwaysInternal(err, fallback) == ErrorResponse(500, fallback)

\* variant: the 500 error keeps the message of the error caught
Rethrow_KeepsMessage(err, fallback) ==
    IF err.status # 0 THEN err ELSE ErrorResponse(500, err.error)

\* the catch blocks of registerUser / loginUser / getUserProfile followed by
\* the controller's catch: an error that carries a statusCode is passed on,
\* any other error is replaced by the operation's own 500 error
Rethrow(err, fallback) ==
    IF err.status # 0 THEN err ELSE ErrorResponse(500, fallback)

\* an exception raised by the store or a library: it has no statusCode
Thrown(message) == [status |-> 0, error |-> message, data |-> None]

\* a request is taken by the first slot that is free
Free(p) == call[p].pc = "idle"

Accepts(p) ==
    /\ Free(p)
    /\ \A q \in Procs : q < p => ~Free(q)
    /\ calls < MaxCalls

\* an operation of the store or of bcrypt raises
Fault == nfaults < MaxFaults /\ nfaults' = nfaults + 1
NoFault == UNCHANGED nfaults

\* the request ends: its response goes to the client, recorded in `last`,
\* and its slot is free again
Finish(p, c, res) ==
    /\ call' = [call EXCEPT ![p] = Idle]
    /\ last' = [c EXCEPT !.pc = "done", !.result = res]

\* the request is suspended at its next await
Continue(p, c) ==
    /\ call' = [call EXCEPT ![p] = c]
    /\ UNCHANGED last

(* ------------------------------ Init ----------------------------------- *)
\* The store outlives the process.  When the service starts it holds what
\* earlier requests left: here the user SeedEmail, registered with
\* SeedPassword, and either no login attempt or Threshold - 1 failed ones
\* for SeedEmail, all from one address, just recorded.
SeedUser == [id |-> 1, email |-> SeedEmail, name |-> "Ann",
             passwordHash |-> BcryptHash(SeedPassword, "salt0"), createdAt |-> 0]

SeedRows(k, ip) == [i \in 1..k |-> NewAttemptRow(SeedEmail, FALSE, ip, 0)]

\* rows of model Tag and model Entry left by earlier requests: a tag of each
\* of two users, and an entry of user 1 carrying that user's tag
SeedTags == {[id |-> "t1", userId |-> 1, name |-> "work"],
             [id |-> "t2", userId |-> 2, name |-> "home"]}

SeedEntries == {[id |-> "e1", userId |-> 1, title |-> "old", tags |-> {"t1"},
                 createdAt |-> 0]}

Init ==
    /\ users = {SeedUser}
    /\ attempts \in {SeedRows(k, ip) : k \in SeedCounts, ip \in SeedIps}
    /\ now = 0
    /\ jwtSecret \in Secrets
    /\ call = [p \in Procs |-> Idle]
    /\ last = Idle
    /\ calls = 0
    /\ nfaults = 0
    /\ issued = {}
    /\ regOk = [e \in Emails |-> IF e = SeedEmail THEN 1 ELSE 0]
    /\ entries = SeedEntries
    /\ tags = SeedTags
    /\ sd = Serving

(* --------------------------- token issuance ---------------------------- *)
\* variant: the token is signed without looking at the secret
GenerateToken_Unchecked(userId) ==
    [thrown |-> None, token |-> Some(JwtSign(userId, jwtSecret, now)),
     logs |-> {}]

\* AuthService.generateToken: the token, or the thrown configuration error
GenerateToken(userId) ==
    IF jwtSecret = ""
    THEN [thrown |-> Some(ErrorResponse(500, "Server configuration error")),
          token |-> None, logs |-> {"error:JWT_SECRET not defined"}]
    ELSE [thrown |-> None, token |-> Some(JwtSign(userId, jwtSecret, now)),
          logs |-> {}]

PublicUser(u) == [id |-> u.id, email |-> u.email, name |-> u.name]

AuthResponse(status, u, token) ==
    [status |-> status, error |-> "",
     data |-> Some([user |-> PublicUser(u), token |-> token])]

(* ----------------------------- register -------------------------------- *)
NewCall(op, email, name, password, ip) ==
    [Idle EXCEPT !.op = op, !.email = email, !.name = name,
                 !.password = password, !.ip = ip]

RegisterFailed(p, c, err) ==
    Finish(p, [c EXCEPT !.logs = @ \cup {"error:User registration error"}],
           Rethrow(err, "Error registering user"))

\* POST /api/auth/register: controller register -> authService.registerUser:
\* const existingUser = await prisma.user.findUnique(...); if (existingUser) throw
RegisterFind(p, email, name, password) ==
    /\ Accepts(p)
    /\ calls' = calls + 1
    /\ \/ /\ Fault
          /\ RegisterFailed(p, [NewCall("register", email, name, password, "")
                                  EXCEPT !.faults = @ \cup {"find"}],
                            Thrown("store"))
       \/ /\ NoFault
          /\ LET c == [NewCall("register", email, name, password, "")
                         EXCEPT !.looked = TRUE]
             IN IF FindUserByEmail(c.email) # None
             THEN RegisterFailed(p, c, ErrorResponse(400, "User already exists"))
             ELSE Continue(p, [c EXCEPT !.pc = "hash"])
    /\ UNCHANGED <<sd, users, attempts, now, jwtSecret, issued, regOk,
                 entries, tags>>

Salts == {"salt1"}

\* await bcrypt.genSalt(10); await bcrypt.hash(userData.password, salt)
RegisterHash(p) ==
    /\ call[p].op = "register" /\ call[p].pc = "hash"
    /\ \/ /\ Fault
          /\ RegisterFailed(p, [call[p] EXCEPT !.faults = @ \cup {"hash"}],
                            Thrown("bcrypt"))
       \/ /\ NoFault
          /\ \E salt \in Salts :
            Continue(p, [call[p] EXCEPT !.pc = "create",
                          !.passwordHash = Some(BcryptHash(call[p].password, salt))])
    /\ UNCHANGED <<sd, users, attempts, now, jwtSecret, calls, issued, regOk,
                 entries, tags>>

\* await prisma.user.create(...); generateToken(newUser.id); return
RegisterCreate(p) ==
    /\ call[p].op = "register" /\ call[p].pc = "create"
    /\ \/ /\ Fault
          /\ RegisterFailed(p, [call[p] EXCEPT !.faults = @ \cup {"create"}],
                            Thrown("store"))
          /\ UNCHANGED <<users, issued, regOk>>
       \/ /\ NoFault
          /\ UniqueEmailViolated(call[p].email)
          /\ RegisterFailed(p, call[p], Thrown("Unique constraint failed"))
          /\ UNCHANGED <<users, issued, regOk>>
       \/ /\ NoFault
          /\ ~UniqueEmailViolated(call[p].email)
          /\ LET c == call[p]
                 newUser == NewUserRow(c.email, c.name, c.passwordHash[1])
                 tok == GenerateToken(newUser.id)
                 c2 == [c EXCEPT !.created = TRUE, !.logs = @ \cup tok.logs]
             IN /\ users' = users \cup {newUser}
                /\ IF tok.thrown # None
                   THEN /\ RegisterFailed(p, c2, tok.thrown[1])
                        /\ UNCHANGED <<issued, regOk>>
                   ELSE /\ Finish(p, c2, AuthResponse(201, newUser, tok.token[1]))
                        /\ issued' = issued \cup
                              {[token |-> tok.token[1], for |-> newUser.id]}
                        /\ regOk' = [regOk EXCEPT ![c.email] = @ + 1]
    /\ UNCHANGED <<sd, attempts, now, jwtSecret, calls,
                 entries, tags>>

(* ------------------------------- login --------------------------------- *)
\* the try block of checkLoginAttempts: what it throws, if anything
CheckLoginAttemptsTry(attemptCount) ==
    IF attemptCount >= Threshold
    THEN Some(ErrorResponse(429,
                "Account temporarily locked due to too many failed attempts"))
    ELSE None

\* variant: the catch block logs and rethrows
CheckLoginAttemptsCatch_Rethrows(thrown) == thrown

\* the catch block of checkLoginAttempts: it logs whatever was thrown in the
\* try block, the method's own 429 error included, and throws nothing
CheckLoginAttemptsCatch(thrown) == None

LoginFailed(p, c, err) ==
    Finish(p, [c EXCEPT !.logs = @ \cup {"error:Login error"}],
           Rethrow(err, "Error during login"))

\* POST /api/auth/login: controller login -> authService.loginUser:
\* await this.checkLoginAttempts(loginData.email, ipAddress)
LoginCheck(p, email, password, ip) ==
    /\ Accepts(p)
    /\ calls' = calls + 1
    /\ \E countFails \in BOOLEAN :
         /\ IF countFails THEN Fault ELSE NoFault
         /\ LET c == NewCall("login", email, "", password, ip)
             n == CountRecentFailed(c.email, c.ip)
             raised == IF countFails THEN Some(Thrown("store"))
                       ELSE CheckLoginAttemptsTry(n)
             thrown == IF raised = None THEN None
                       ELSE CheckLoginAttemptsCatch(raised)
             c2 == [c EXCEPT
                      !.attemptCount = IF countFails THEN -1 ELSE n,
                      !.faults = IF countFails THEN @ \cup {"count"} ELSE @,
                      !.logs = @ \cup
                         (IF ~countFails /\ n >= Threshold
                          THEN {"warn:Too many failed login attempts"} ELSE {})
                         \cup
                         (IF raised # None
                          THEN {"error:Error checking login attempts"} ELSE {})]
            IN IF thrown # None
               THEN LoginFailed(p, c2, thrown[1])
               ELSE Continue(p, [c2 EXCEPT !.pc = "find"])
    /\ UNCHANGED <<sd, users, attempts, now, jwtSecret, issued, regOk,
                 entries, tags>>

\* variant: the password is not compared
AfterLookup_SkipsCompare(user) == "record"

\* if (!user) { await this.recordLoginAttempt(..) } else bcrypt.compare(..):
\* the await loginUser reaches after the lookup
AfterLookup(user) == IF user = None THEN "record" ELSE "compare"

\* const user = await prisma.user.findUnique({ where: { email } })
LoginFind(p) ==
    /\ call[p].op = "login" /\ call[p].pc = "find"
    /\ \/ /\ Fault
          /\ LoginFailed(p, [call[p] EXCEPT !.faults = @ \cup {"find"}],
                         Thrown("store"))
       \/ /\ NoFault
          /\ LET user == FindUserByEmail(call[p].email)
                 c == [call[p] EXCEPT !.looked = TRUE, !.user = user]
             IN Continue(p, [c EXCEPT !.pc = AfterLookup(user)])
    /\ UNCHANGED <<sd, users, attempts, now, jwtSecret, calls, issued, regOk,
                 entries, tags>>

\* const validPassword = await bcrypt.compare(loginData.password, user.passwordHash)
LoginCompare(p) ==
    /\ call[p].op = "login" /\ call[p].pc = "compare"
    /\ \/ /\ Fault
          /\ LoginFailed(p, [call[p] EXCEPT !.faults = @ \cup {"compare"}],
                         Thrown("bcrypt"))
       \/ /\ NoFault
          /\ Continue(p, [call[p] EXCEPT !.pc = "record", !.compared = TRUE,
                              !.validPassword =
                                 BcryptCompare(call[p].password,
                                               call[p].user[1].passwordHash)])
    /\ UNCHANGED <<sd, users, attempts, now, jwtSecret, calls, issued, regOk,
                 entries, tags>>

\* variant: finding the user is enough for a successful attempt
AttemptSuccess_FoundUser(c) == c.user # None

\* the success flag loginUser passes to recordLoginAttempt
AttemptSuccess(c) == c.user # None /\ c.validPassword

\* variant: an unknown email is reported as such
LoginRejection_Enumerates(c) ==
    IF c.user = None THEN ErrorResponse(404, "User not found")
    ELSE ErrorResponse(401, "Invalid credentials")

\* the error loginUser throws when the user is unknown or the password wrong
LoginRejection(c) == ErrorResponse(401, "Invalid credentials")

\* variant: the row carries the opposite outcome
RecordLoginAttempt_Negated(email, success, ipAddress, t) ==
    <<NewAttemptRow(email, ~success, ipAddress, t)>>

\* variant: only successful logins are recorded
RecordLoginAttempt_OnlySuccess(email, success, ipAddress, t) ==
    IF success THEN <<NewAttemptRow(email, success, ipAddress, t)>> ELSE <<>>

\* variant: the insert is issued twice
RecordLoginAttempt_Twice(email, success, ipAddress, t) ==
    <<NewAttemptRow(email, success, ipAddress, t),
      NewAttemptRow(email, success, ipAddress, t)>>

\* the try block of recordLoginAttempt: the rows it inserts
RecordLoginAttempt(email, success, ipAddress, t) ==
    <<NewAttemptRow(email, success, ipAddress, t)>>

\* variant: a successful attempt replaces the earlier rows of its email
Inserted_ClearsOnSuccess(log, rows) ==
    IF rows # <<>> /\ rows[1].success
    THEN SelectSeq(log, LAMBDA r : r.email # rows[1].email) \o rows
    ELSE log \o rows

\* variant: count and insert are one guarded operation: a failed row is not
\* inserted once the window holds the threshold for its email and address
Inserted_UnderLock(log, rows) ==
    IF /\ rows # <<>> /\ ~rows[1].success
       /\ CountRecentFailed(rows[1].email, rows[1].ipAddress) >= Threshold
    THEN log
    ELSE log \o rows

\* prisma.loginAttempt.create: the table after the rows have been inserted
Inserted(log, rows) == log \o rows

\* what loginUser does after recordLoginAttempt has returned
LoginAfterRecord(p, c) ==
    IF ~AttemptSuccess(c)
    THEN /\ LoginFailed(p, c, LoginRejection(c))
         /\ UNCHANGED issued
    ELSE LET tok == GenerateToken(c.user[1].id)
             c2 == [c EXCEPT !.logs = @ \cup tok.logs]
         IN IF tok.thrown # None
            THEN /\ LoginFailed(p, c2, tok.thrown[1])
                 /\ UNCHANGED issued
            ELSE /\ Finish(p, c2, AuthResponse(200, c.user[1], tok.token[1]))
                 /\ issued' = issued \cup
                       {[token |-> tok.token[1], for |-> c.user[1].id]}

\* await this.recordLoginAttempt(email, success, ipAddress), whose catch block
\* logs a failed insert and throws nothing, and the rest of loginUser
LoginRecord(p) ==
    /\ call[p].op = "login" /\ call[p].pc = "record"
    /\ \/ /\ Fault
          /\ UNCHANGED attempts
          /\ LoginAfterRecord(p, [call[p] EXCEPT
                 !.faults = @ \cup {"record"},
                 !.logs = @ \cup {"error:Error recording login attempt"}])
       \/ /\ NoFault
          /\ LET rows == RecordLoginAttempt(call[p].email, AttemptSuccess(call[p]),
                                            call[p].ip, now)
             IN /\ attempts' = Inserted(attempts, rows)
                /\ LoginAfterRecord(p, [call[p] EXCEPT !.rows = @ + Len(rows)])
    /\ UNCHANGED <<sd, users, now, jwtSecret, calls, regOk,
                 entries, tags>>

(* ------------------------ authMiddleware, profile ---------------------- *)
Malformed == [wellFormed |-> FALSE, userId |-> 0, sig |-> "", exp |-> 0]
Forged == [wellFormed |-> TRUE, userId |-> 1, sig |-> "s2", exp |-> 1000]
\* a token this server signed for a user that has since been removed
Orphan == [wellFormed |-> TRUE, userId |-> 99, sig |-> "s1", exp |-> 1000]

Headers ==
    {None, <<"Basic", Malformed>>}
    \cup {<<"Bearer", t>> : t \in {Malformed, Forged, Orphan}}
    \cup {<<"Bearer", i.token>> : i \in issued}

\* variant: a Bearer token is decoded without being verified
AuthMiddleware_SkipsVerify(header) ==
    IF header = None \/ header[1] # "Bearer"
    THEN [next |-> FALSE, userId |-> 0,
          response |-> ErrorResponse(401, "Unauthorized - Token not provided"),
          logs |-> {"warn:Access attempt without authorization token"}]
    ELSE IF jwtSecret = ""
    THEN [next |-> FALSE, userId |-> 0,
          response |-> ErrorResponse(500, "Server configuration error"),
          logs |-> {"error:JWT_SECRET not defined in environment variables"}]
    ELSE [next |-> TRUE, userId |-> header[2].userId,
          response |-> NoResult, logs |-> {}]

\* variant: the catch block has no TokenExpiredError branch
AuthMiddleware_NoExpiredBranch(header) ==
    IF header = None \/ header[1] # "Bearer"
    THEN [next |-> FALSE, userId |-> 0,
          response |-> ErrorResponse(401, "Unauthorized - Token not provided"),
          logs |-> {"warn:Access attempt without authorization token"}]
    ELSE IF jwtSecret = ""
    THEN [next |-> FALSE, userId |-> 0,
          response |-> ErrorResponse(500, "Server configuration error"),
          logs |-> {"error:JWT_SECRET not defined in environment variables"}]
    ELSE IF JwtVerify(header[2], jwtSecret, now) = "ok"
    THEN [next |-> TRUE, userId |-> header[2].userId,
          response |-> NoResult, logs |-> {}]
    ELSE [next |-> FALSE, userId |-> 0,
          response |-> ErrorResponse(401, "Unauthorized - Invalid token"),
          logs |-> {"error:Authentication error"}]

\* authMiddleware: the response it sends, or next() with req.user
AuthMiddleware(header) ==
    IF header = None \/ header[1] # "Bearer"
    THEN [next |-> FALSE, userId |-> 0,
          response |-> ErrorResponse(401, "Unauthorized - Token not provided"),
          logs |-> {"warn:Access attempt without authorization token"}]
    ELSE IF jwtSecret = ""
    THEN [next |-> FALSE, userId |-> 0,
          response |-> ErrorResponse(500, "Server configuration error"),
          logs |-> {"error:JWT_SECRET not defined in environment variables"}]
    ELSE LET verdict == JwtVerify(header[2], jwtSecret, now)
         IN IF verdict = "ok"
            THEN [next |-> TRUE, userId |-> header[2].userId,
                  response |-> NoResult, logs |-> {}]
            ELSE [next |-> FALSE, userId |-> 0,
                  response |-> ErrorResponse(401,
                     IF verdict = "expired" THEN "Unauthorized - Token expired"
                     ELSE "Unauthorized - Invalid token"),
                  logs |-> {"error:Authentication error"}]

\* GET /api/auth/profile: authMiddleware, then controller getProfile ->
\* authService.getUserProfile up to its await
GetProfile(p, header) ==
    /\ Accepts(p)
    /\ calls' = calls + 1
    /\ LET mw == AuthMiddleware(header)
           c == [Idle EXCEPT !.op = "profile", !.header = header,
                             !.logs = mw.logs, !.nextCalled = mw.next,
                             !.userId = mw.userId]
       IN IF ~mw.next THEN Finish(p, c, mw.response)
          ELSE IF c.userId = 0
          THEN Finish(p, c, ErrorResponse(401, "User not authenticated"))
          ELSE Continue(p, [c EXCEPT !.pc = "find"])
    /\ UNCHANGED <<sd, users, attempts, now, jwtSecret, nfaults, issued, regOk,
                 entries, tags>>

ProfileFailed(p, c, err) ==
    Finish(p, [c EXCEPT !.logs = @ \cup {"error:Error getting user profile"}],
           Rethrow(err, "Error retrieving user profile"))

\* const user = await prisma.user.findUnique({ where: { id }, select }); return
ProfileFind(p) ==
    /\ call[p].op = "profile" /\ call[p].pc = "find"
    /\ \/ /\ Fault
          /\ ProfileFailed(p, [call[p] EXCEPT !.faults = @ \cup {"find"}],
                           Thrown("store"))
       \/ /\ NoFault
          /\ LET user == FindProfileById(call[p].userId)
                 c == [call[p] EXCEPT !.looked = TRUE]
             IN IF user = None
                THEN ProfileFailed(p, c, ErrorResponse(404, "User not found"))
                ELSE Finish(p, c, [status |-> 200, error |-> "", data |-> user])
    /\ UNCHANGED <<sd, users, attempts, now, jwtSecret, calls, issued, regOk,
                 entries, tags>>

(* --------------------------- environment ------------------------------- *)
\* Date.now() advances
Tick ==
    /\ now < MaxTicks * TickMinutes
    /\ now' = now + TickMinutes
    /\ UNCHANGED <<sd, users, attempts, jwtSecret, call, last, calls, nfaults, issued, regOk,
                 entries, tags>>

Next ==
    \/ \E p \in Procs, e \in Emails, n \in Names, pw \in RegisterPasswords :
         RegisterFind(p, e, n, pw)
    \/ \E p \in Procs : RegisterHash(p)
    \/ \E p \in Procs : RegisterCreate(p)
    \/ \E p \in Procs, e \in Emails, pw \in Passwords, ip \in Ips :
         LoginCheck(p, e, pw, ip)
    \/ \E p \in Procs : LoginFind(p)
    \/ \E p \in Procs : LoginCompare(p)
    \/ \E p \in Procs : LoginRecord(p)
    \/ \E p \in Procs, h \in Headers : GetProfile(p, h)
    \/ \E p \in Procs : ProfileFind(p)
    \/ Tick

Spec == Init /\ [][Next]_vars

(* ========================= entries and tags ============================ *)
EntryIds == {"e1"}
TagIds == {"t1"}
Formats == {"json", "pdf"}
\* request bodies that pass validate(entrySchema) / validate(tagSchema)
EntryBodies == {[title |-> "new", tags |-> {"t2"}]}
TagBodies == {[name |-> "play"]}

EntryOps == {"getEntryById", "updateEntry", "deleteEntry", "exportEntry"}
TagOps == {"updateTag", "deleteTag"}

\* variant: the lookup ignores the owner
FindFirstEntry_AnyOwner(entryId, userId) ==
    IF \E e \in entries : e.id = entryId
    THEN Some(CHOOSE e \in entries : e.id = entryId)
    ELSE None

\* prisma.entry.findFirst({ where: { id: entryId, userId } })
FindFirstEntry(entryId, userId) ==
    IF \E e \in entries : e.id = entryId /\ e.userId = userId
    THEN Some(CHOOSE e \in entries : e.id = entryId /\ e.userId = userId)
    ELSE None

\* prisma.tag.findFirst({ where: { id: tagId, userId } })
FindFirstTag(tagId, userId) ==
    IF \E t \in tags : t.id = tagId /\ t.userId = userId
    THEN Some(CHOOSE t \in tags : t.id = tagId /\ t.userId = userId)
    ELSE None

\* the catch block of EntryService.getEntryById: the message it throws for
\* an error with the given message raised inside its try block
GetEntryByIdCatch(message) == "Error getting entry"

\* the message the EntryService method of a route finally throws for an
\* error raised inside its try block; getEntryForExport calls getEntryById
\* and has a catch block of its own
EntryServiceCatch(op, message) ==
    IF op = "getEntryById" THEN GetEntryByIdCatch(message)
    ELSE IF op = "updateEntry" THEN "Error updating entry"
    ELSE IF op = "deleteEntry" THEN "Error deleting entry"
    ELSE IF GetEntryByIdCatch(message) = "" THEN "" ELSE "Error exporting entry"

\* the catch block of the entry controllers
EntryControllerCatch(message) ==
    [status |-> IF message = "Entry not found" THEN 404 ELSE 500,
     error |-> message, data |-> None]

\* the catch block of TagService.getTagById
GetTagByIdCatch(message) == "Error getting tag"

\* the catch blocks of TagService.updateTag / deleteTag
TagServiceCatch(op, message) ==
    IF message = "Tag not found" THEN message
    ELSE IF op = "updateTag" THEN "Error updating tag"
    ELSE "Error deleting tag"

\* the catch block of the tag controllers
TagControllerCatch(message) ==
    [status |-> IF message = "Tag not found" THEN 404 ELSE 500,
     error |-> message, data |-> None]

Ok(data) == [status |-> 200, error |-> "", data |-> data]

\* the first store operation the service method of a route awaits
FirstAwait(op) ==
    IF op = "createEntry" THEN "write"
    ELSE IF op = "getEntries" THEN "count"
    ELSE "findFirst"

\* router.use(authMiddleware), then the controller up to the first await of
\* the service method it calls
Protected(p, op, header, id, body, format) ==
    /\ Accepts(p)
    /\ calls' = calls + 1
    /\ LET mw == AuthMiddleware(header)
           c == [Idle EXCEPT !.op = op, !.header = header, !.logs = mw.logs,
                             !.nextCalled = mw.next, !.userId = mw.userId,
                             !.id = id, !.body = body, !.format = format]
       IN IF ~mw.next THEN Finish(p, c, mw.response)
          ELSE IF c.userId = 0
          THEN Finish(p, c, ErrorResponse(401, "Unauthorized"))
          ELSE Continue(p, [c EXCEPT !.pc = FirstAwait(op)])
    /\ UNCHANGED <<sd, users, attempts, now, jwtSecret, nfaults, issued, regOk,
                   entries, tags>>

\* /api/entries/:id (GET, PUT, DELETE) and /api/entries/:id/export/:format
EntryRequest(p, op, header, id, body, format) ==
    /\ op \in EntryOps
    /\ Protected(p, op, header, id, body, format)

\* await prisma.entry.findFirst(...) in getEntryById, updateEntry and
\* deleteEntry, and what follows up to the next await or the response
EntryFind(p) ==
    /\ call[p].op \in EntryOps /\ call[p].pc = "findFirst"
    /\ LET op == call[p].op
       IN \/ /\ Fault
             /\ Finish(p, [call[p] EXCEPT !.faults = @ \cup {"findFirst"}],
                       EntryControllerCatch(EntryServiceCatch(op, "store")))
          \/ /\ NoFault
             /\ LET entry == FindFirstEntry(call[p].id, call[p].userId)
                    c == [call[p] EXCEPT !.looked = TRUE, !.found = entry # None]
                IN IF entry = None
                   THEN Finish(p, c, EntryControllerCatch(
                                        EntryServiceCatch(op, "Entry not found")))
                   ELSE IF op = "getEntryById" THEN Finish(p, c, Ok(entry))
                   ELSE IF op = "exportEntry"
                   THEN IF c.format \in {"txt", "json", "html"}
                        THEN Finish(p, c, Ok(entry))
                        ELSE Finish(p, c, ErrorResponse(400, "Invalid export format"))
                   ELSE Continue(p, [c EXCEPT !.pc = "write"])
    /\ UNCHANGED <<sd, users, attempts, now, jwtSecret, calls, issued, regOk,
                   entries, tags>>

\* await prisma.entry.update({ where: { id }, data }) in updateEntry,
\* await prisma.entry.delete({ where: { id } }) in deleteEntry; both raise
\* when no row has the id, update also when a tag to connect does not exist
EntryWrite(p) ==
    /\ call[p].op \in {"updateEntry", "deleteEntry"} /\ call[p].pc = "write"
    /\ LET c == call[p]
           failed(d) == Finish(p, d, EntryControllerCatch(
                                        EntryServiceCatch(c.op, "store")))
       IN \/ /\ Fault
             /\ failed([c EXCEPT !.faults = @ \cup {"write"}])
             /\ UNCHANGED entries
          \/ /\ NoFault
             /\ IF \/ ~\E e \in entries : e.id = c.id
                   \/ /\ c.op = "updateEntry"
                      /\ ~(c.body[1].tags \subseteq {t.id : t \in tags})
                THEN failed(c) /\ UNCHANGED entries
                ELSE LET old == CHOOSE e \in entries : e.id = c.id
                         new == [old EXCEPT !.title = c.body[1].title,
                                            !.tags = c.body[1].tags]
                     IN IF c.op = "updateEntry"
                        THEN /\ entries' = (entries \ {old}) \cup {new}
                             /\ Finish(p, [c EXCEPT !.wrote = TRUE], Ok(Some(new)))
                        ELSE /\ entries' = entries \ {old}
                             /\ Finish(p, [c EXCEPT !.wrote = TRUE], Ok(None))
    /\ UNCHANGED <<sd, users, attempts, now, jwtSecret, calls, issued, regOk, tags>>

\* @default(uuid()): the id of the entry created by the n-th request
FreshEntryId(n) ==
    IF n = 1 THEN "n1" ELSE IF n = 2 THEN "n2" ELSE IF n = 3 THEN "n3" ELSE "n4"

\* POST /api/entries
CreateEntryRequest(p, header, body) ==
    Protected(p, "createEntry", header, FreshEntryId(calls + 1), body, "")

\* await prisma.entry.create({ data: { title, content, userId, tags:
\* { connect } } }) in createEntry, which raises when a tag to connect does
\* not exist, and the response
EntryCreate(p) ==
    /\ call[p].op = "createEntry" /\ call[p].pc = "write"
    /\ LET c == call[p]
           failed(d) == Finish(p, d, ErrorResponse(500, "Error creating entry"))
       IN \/ /\ Fault
             /\ failed([c EXCEPT !.faults = @ \cup {"write"}])
             /\ UNCHANGED entries
          \/ /\ NoFault
             /\ IF ~(c.body[1].tags \subseteq {t.id : t \in tags})
                THEN failed(c) /\ UNCHANGED entries
                ELSE LET new == [id |-> c.id, userId |-> c.userId,
                                 title |-> c.body[1].title,
                                 tags |-> c.body[1].tags, createdAt |-> now]
                     IN /\ entries' = entries \cup {new}
                        /\ Finish(p, [c EXCEPT !.wrote = TRUE],
                                  [status |-> 201, error |-> "", data |-> Some(new)])
    /\ UNCHANGED <<sd, users, attempts, now, jwtSecret, calls, issued, regOk, tags>>

\* PUT and DELETE /api/tags/:id
TagRequest(p, op, header, id, body) ==
    /\ op \in TagOps
    /\ Protected(p, op, header, id, body, "")

\* await prisma.tag.findFirst(...) in getTagById, called by updateTag and
\* deleteTag, and what follows up to the next await or the response
TagFind(p) ==
    /\ call[p].op \in TagOps /\ call[p].pc = "findFirst"
    /\ LET op == call[p].op
       IN \/ /\ Fault
             /\ Finish(p, [call[p] EXCEPT !.faults = @ \cup {"findFirst"}],
                       TagControllerCatch(
                          TagServiceCatch(op, GetTagByIdCatch("store"))))
          \/ /\ NoFault
             /\ LET tag == FindFirstTag(call[p].id, call[p].userId)
                    c == [call[p] EXCEPT !.looked = TRUE, !.found = tag # None]
                IN IF tag = None
                   THEN Finish(p, c, TagControllerCatch(
                           TagServiceCatch(op, GetTagByIdCatch("Tag not found"))))
                   ELSE Continue(p, [c EXCEPT !.pc = "write"])
    /\ UNCHANGED <<sd, users, attempts, now, jwtSecret, calls, issued, regOk,
                   entries, tags>>

\* await prisma.tag.update({ where: { id }, data }) in updateTag, which
\* raises on @@unique([name, userId]); await prisma.tag.delete({ where:
\* { id } }) in deleteTag, which also removes the tag from its entries
TagWrite(p) ==
    /\ call[p].op \in TagOps /\ call[p].pc = "write"
    /\ LET c == call[p]
           failed(d) == Finish(p, d, TagControllerCatch(TagServiceCatch(c.op, "store")))
       IN \/ /\ Fault
             /\ failed([c EXCEPT !.faults = @ \cup {"write"}])
             /\ UNCHANGED <<entries, tags>>
          \/ /\ NoFault
             /\ IF ~\E t \in tags : t.id = c.id
                THEN failed(c) /\ UNCHANGED <<entries, tags>>
                ELSE LET old == CHOOSE t \in tags : t.id = c.id
                     IN IF c.op = "deleteTag"
                        THEN /\ tags' = tags \ {old}
                             /\ entries' = {[e EXCEPT !.tags = @ \ {old.id}] :
                                               e \in entries}
                             /\ Finish(p, [c EXCEPT !.wrote = TRUE], Ok(None))
                        ELSE IF \E t \in tags \ {old} :
                                   /\ t.userId = old.userId
                                   /\ t.name = c.body[1].name
                        THEN failed(c) /\ UNCHANGED <<entries, tags>>
                        ELSE LET new == [old EXCEPT !.name = c.body[1].name]
                             IN /\ tags' = (tags \ {old}) \cup {new}
                                /\ UNCHANGED entries
                                /\ Finish(p, [c EXCEPT !.wrote = TRUE], Ok(Some(new)))
    /\ UNCHANGED <<sd, users, attempts, now, jwtSecret, calls, issued, regOk>>

\* the store and the tokens in circulation when the service has run for a
\* while: two registered users, each holding a token signed at time 0
SeedUser2 == [id |-> 2, email |-> "b@x.com", name |-> "Bob",
              passwordHash |-> BcryptHash(SeedPassword, "salt0"), createdAt |-> 0]

InitApi ==
    /\ users = {SeedUser, SeedUser2}
    /\ attempts = <<>>
    /\ now = 0
    /\ jwtSecret \in Secrets
    /\ call = [p \in Procs |-> Idle]
    /\ last = Idle
    /\ calls = 0
    /\ nfaults = 0
    /\ issued = IF jwtSecret = "" THEN {}
                ELSE {[token |-> JwtSign(u.id, jwtSecret, 0), for |-> u.id] :
                         u \in users}
    /\ regOk = [e \in Emails |-> 1]
    /\ entries = SeedEntries
    /\ tags = SeedTags
    /\ sd = Serving

NextApi ==
    \/ \E p \in Procs, op \in EntryOps, h \in Headers, id \in EntryIds :
         \E body \in (IF op = "updateEntry" THEN {Some(b) : b \in EntryBodies}
                      ELSE {None}),
            format \in (IF op = "exportEntry" THEN Formats ELSE {""}) :
            EntryRequest(p, op, h, id, body, format)
    \/ \E p \in Procs : EntryFind(p)
    \/ \E p \in Procs : EntryWrite(p)
    \/ \E p \in Procs, op \in TagOps, h \in Headers, id \in TagIds :
         \E body \in (IF op = "updateTag" THEN {Some(b) : b \in TagBodies}
                      ELSE {None}) :
            TagRequest(p, op, h, id, body)
    \/ \E p \in Procs : TagFind(p)
    \/ \E p \in Procs : TagWrite(p)
    \/ \E p \in Procs, h \in Headers : GetProfile(p, h)
    \/ \E p \in Procs : ProfileFind(p)
    \/ Tick

SpecApi == InitApi /\ [][NextApi]_vars

(* =============== entries and tags of two signed-in users =============== *)
\* the headers of clients that hold a token, and of one that holds none
UserHeaders == {None} \cup {<<"Bearer", i.token>> : i \in issued}

\* also the first entry created, and a body that connects tag t1
MoreEntryIds == EntryIds \cup {FreshEntryId(1)}
MoreEntryBodies == EntryBodies \cup {[title |-> "new", tags |-> {"t1"}]}

NextEntries ==
    \/ \E p \in Procs, h \in UserHeaders, b \in MoreEntryBodies :
         CreateEntryRequest(p, h, Some(b))
    \/ \E p \in Procs : EntryCreate(p)
    \/ \E p \in Procs, op \in EntryOps, h \in UserHeaders, id \in MoreEntryIds :
         \E body \in (IF op = "updateEntry" THEN {Some(b) : b \in MoreEntryBodies}
                      ELSE {None}),
            format \in (IF op = "exportEntry" THEN Formats ELSE {""}) :
            EntryRequest(p, op, h, id, body, format)
    \/ \E p \in Procs : EntryFind(p)
    \/ \E p \in Procs : EntryWrite(p)
    \/ \E p \in Procs, op \in TagOps, h \in UserHeaders, id \in TagIds :
         \E body \in (IF op = "updateTag" THEN {Some(b) : b \in TagBodies}
                      ELSE {None}) :
            TagRequest(p, op, h, id, body)
    \/ \E p \in Procs : TagFind(p)
    \/ \E p \in Procs : TagWrite(p)

\* as InitApi, with a secret configured
InitEntries == InitApi /\ jwtSecret # ""

SpecEntries == InitEntries /\ [][NextEntries]_vars

(* ======================= GET /api/entries, paged ======================== *)
MaxTotal == 3          \* entries of user 1 in the store at the start
MaxPage == 3           \* largest ?page= sent
MaxLimit == 2          \* largest ?limit= sent
DefaultPage == 1
DefaultLimit == 10

\* ?page= and ?limit= as parseInt reads them; 0 stands for an absent or
\* non-numeric parameter as well, which parseInt(..) || d replaces by d
Pages == 0..MaxPage
Limits == 0..MaxLimit
Sorts == {"asc", "desc"}
TagFilters == {"", "t1"}

\* parseInt(x, 10) || d
ParseIntOr(x, d) == IF x = 0 THEN d ELSE x

\* the where clause of getEntries: the user's entries, those carrying tagId
\* when it is given (no search term is sent)
Where(e, userId, tagId) ==
    /\ e.userId = userId
    /\ tagId # "" => tagId \in e.tags

Matching(userId, tagId) == {e \in entries : Where(e, userId, tagId)}

\* const skip = (page - 1) * limit
Skip(page, limit) == (page - 1) * limit

\* variant: rounds down
TotalPages_Floor(total, limit) == total \div limit

\* Math.ceil(total / limit)
TotalPages(total, limit) == (total + limit - 1) \div limit

\* a before b under orderBy: { createdAt: sort }
Before(a, b, sort) ==
    IF sort = "asc" THEN a.createdAt < b.createdAt ELSE a.createdAt > b.createdAt

\* the orders in which findMany may return the rows of a set: sorted by
\* createdAt, rows with equal createdAt in any order
Orders(rows, sort) ==
    {o \in [1..Cardinality(rows) -> rows] :
        /\ \A i, j \in DOMAIN o : i # j => o[i] # o[j]
        /\ \A i, j \in DOMAIN o : i < j => ~Before(o[j], o[i], sort)}

\* skip and take applied to the ordered rows
Slice(o, skip, take) ==
    IF skip >= Len(o) THEN <<>>
    ELSE SubSeq(o, skip + 1, IF skip + take < Len(o) THEN skip + take ELSE Len(o))

\* the controller getEntries up to the first await of the service
GetEntriesRequest(p, header, page, limit, sort, tagId) ==
    Protected(p, "getEntries", header, "",
              Some([page |-> ParseIntOr(page, DefaultPage),
                    limit |-> ParseIntOr(limit, DefaultLimit),
                    sort |-> sort, tagId |-> tagId]), "")

EntriesFailed(p, c) == Finish(p, c, ErrorResponse(500, "Error getting entries"))

\* const total = await prisma.entry.count({ where })
EntriesCount(p) ==
    /\ call[p].op = "getEntries" /\ call[p].pc = "count"
    /\ \/ /\ Fault
          /\ EntriesFailed(p, [call[p] EXCEPT !.faults = @ \cup {"count"}])
       \/ /\ NoFault
          /\ Continue(p, [call[p] EXCEPT
                !.pc = "findMany",
                !.total = Cardinality(Matching(call[p].userId,
                                               call[p].body[1].tagId))])
    /\ UNCHANGED <<sd, users, attempts, now, jwtSecret, calls, issued, regOk,
                   entries, tags>>

\* const entries = await prisma.entry.findMany({ where, orderBy, skip, take })
\* and the pagination data returned with them
EntriesFindMany(p) ==
    /\ call[p].op = "getEntries" /\ call[p].pc = "findMany"
    /\ LET c == call[p]
           q == c.body[1]
       IN \/ /\ Fault
             /\ EntriesFailed(p, [c EXCEPT !.faults = @ \cup {"findMany"}])
          \/ /\ NoFault
             /\ \E o \in Orders(Matching(c.userId, q.tagId), q.sort) :
                   LET totalPages == TotalPages(c.total, q.limit)
                   IN Finish(p, [c EXCEPT !.looked = TRUE],
                         Ok(Some([entries |-> Slice(o, Skip(q.page, q.limit), q.limit),
                                  pagination |->
                                     [total |-> c.total, page |-> q.page,
                                      limit |-> q.limit,
                                      totalPages |-> totalPages,
                                      hasNextPage |-> q.page < totalPages,
                                      hasPrevPage |-> q.page > 1]])))
    /\ UNCHANGED <<sd, users, attempts, now, jwtSecret, calls, issued, regOk,
                   entries, tags>>

PageEntryId(i) ==
    IF i = 1 THEN "e1" ELSE IF i = 2 THEN "e2" ELSE IF i = 3 THEN "e3" ELSE "e4"

\* k entries of user 1, created at two different times, every other one
\* carrying tag t1, and an entry of user 2
PageSeeds(k) ==
    {[id |-> PageEntryId(i), userId |-> 1, title |-> "old",
      tags |-> IF i % 2 = 1 THEN {"t1"} ELSE {}, createdAt |-> i \div 2] :
        i \in 1..k}
    \cup {[id |-> "o1", userId |-> 2, title |-> "old", tags |-> {"t2"},
           createdAt |-> 0]}

InitPages ==
    /\ users = {SeedUser, SeedUser2}
    /\ attempts = <<>>
    /\ now = 0
    /\ jwtSecret = "s1"
    /\ call = [p \in Procs |-> Idle]
    /\ last = Idle
    /\ calls = 0
    /\ nfaults = 0
    /\ issued = {[token |-> JwtSign(u.id, jwtSecret, 0), for |-> u.id] : u \in users}
    /\ regOk = [e \in Emails |-> 1]
    /\ entries \in {PageSeeds(k) : k \in 0..MaxTotal}
    /\ tags = SeedTags
    /\ sd = Serving

\* the client of user 1 pages through its entries, one request at a time
PageHeaders == {<<"Bearer", i.token>> : i \in {j \in issued : j.for = 1}}

PageRequest(p, header, page, limit, sort, tagId) ==
    /\ \A q \in Procs : Free(q)
    /\ GetEntriesRequest(p, header, page, limit, sort, tagId)

NextPages ==
    \/ \E p \in Procs, h \in PageHeaders, page \in Pages, limit \in Limits,
          sort \in Sorts, tagId \in TagFilters :
         PageRequest(p, h, page, limit, sort, tagId)
    \/ \E p \in Procs : EntriesCount(p)
    \/ \E p \in Procs : EntriesFindMany(p)

SpecPages == InitPages /\ [][NextPages]_vars

(* ========================== gracefulShutdown ============================ *)
appVars == <<users, attempts, now, jwtSecret, call, last, calls, nfaults, issued,
             regOk, entries, tags>>

Running == sd.exit = -1

\* variant: the server is not closed
AfterArming_SkipsClose(server) == "disconnect"

\* if (server) { await new Promise(resolve => server.close(() => resolve())) }
\* else straight on to prisma.$disconnect()
AfterArming(server) == IF server # "none" THEN "close" ELSE "disconnect"

\* gracefulShutdown is invoked (SIGINT, SIGTERM or a direct call): it arms
\* forceExit and runs up to its first await
Signal(i) ==
    /\ Running
    /\ sd.inv[i].pc = "idle"
    /\ \A j \in 1..(i - 1) : sd.inv[j].pc # "idle"
    /\ LET pc == AfterArming(sd.server)
       IN sd' = [sd EXCEPT
             !.inv[i] = [pc |-> pc, timer |-> "armed",
                         deadline |-> sd.clock + TimeoutSeconds],
             !.server = IF pc = "close" /\ @ = "listening" THEN "closing" ELSE @]
    /\ UNCHANGED appVars

\* the last connection ends and the server emits 'close'
ServerCloses ==
    /\ Running
    /\ sd.server = "closing"
    /\ sd' = [sd EXCEPT !.server = "closed", !.order = Append(@, "close")]
    /\ UNCHANGED appVars

\* the callback given to server.close runs: resolve(), and the invocation
\* goes on to call prisma.$disconnect()
CloseResolved(i) ==
    /\ Running
    /\ sd.inv[i].pc = "close" /\ sd.server = "closed"
    /\ sd' = [sd EXCEPT !.inv[i].pc = "disconnect"]
    /\ UNCHANGED appVars

\* await prisma.$disconnect() returns; clearTimeout(forceExit); process.exit(0)
DisconnectDone(i) ==
    /\ Running
    /\ sd.inv[i].pc = "disconnect"
    /\ sd' = [sd EXCEPT !.db = "disconnected",
                        !.order = Append(@, "disconnect"),
                        !.inv[i].pc = "done", !.inv[i].timer = "cleared",
                        !.exit = 0]
    /\ UNCHANGED appVars

\* await prisma.$disconnect() raises; the catch block: clearTimeout(forceExit);
\* process.exit(1)
DisconnectRaises(i) ==
    /\ Running
    /\ sd.inv[i].pc = "disconnect"
    /\ sd' = [sd EXCEPT !.raised = TRUE,
                        !.inv[i].pc = "done", !.inv[i].timer = "cleared",
                        !.exit = 1]
    /\ UNCHANGED appVars

Armed(i) == sd.inv[i].timer = "armed"

\* a second passes; a timer that is due fires before more time passes
Second ==
    /\ Running
    /\ \E i \in 1..SdSignals : Armed(i)
    /\ \A i \in 1..SdSignals : Armed(i) => sd.clock < sd.inv[i].deadline
    /\ sd' = [sd EXCEPT !.clock = @ + 1]
    /\ UNCHANGED appVars

\* the forceExit callback: process.exit(1)
ForceExit(i) ==
    /\ Running
    /\ Armed(i) /\ sd.clock >= sd.inv[i].deadline
    /\ sd' = [sd EXCEPT !.timedOut = TRUE, !.exit = 1]
    /\ UNCHANGED appVars

\* the process when a signal may arrive: started by startServer, or
\* gracefulShutdown called with no server started
InitShutdown ==
    /\ users = {SeedUser}
    /\ attempts = <<>>
    /\ now = 0
    /\ jwtSecret = "s1"
    /\ call = [p \in Procs |-> Idle]
    /\ last = Idle
    /\ calls = 0
    /\ nfaults = 0
    /\ issued = {}
    /\ regOk = [e \in Emails |-> IF e = SeedEmail THEN 1 ELSE 0]
    /\ entries = SeedEntries
    /\ tags = SeedTags
    /\ sd \in {Process(s) : s \in {"none", "listening"}}

NextShutdown ==
    \/ \E i \in 1..SdSignals : Signal(i)
    \/ ServerCloses
    \/ \E i \in 1..SdSignals : CloseResolved(i)
    \/ \E i \in 1..SdSignals : DisconnectDone(i)
    \/ \E i \in 1..SdSignals : DisconnectRaises(i)
    \/ Second
    \/ \E i \in 1..SdSignals : ForceExit(i)

\* time passes and a timer that is due fires; nothing makes the server's
\* connections end or prisma.$disconnect() return
SpecShutdown ==
    /\ InitShutdown /\ [][NextShutdown]_vars
    /\ WF_vars(Second)
    /\ WF_vars(\E i \in 1..SdSignals : ForceExit(i))

(* ================ one client: register, then logins in turn ============== *)
\* requests the client sends, one after the other, each after the response
\* to the one before: register SeedEmail, WrongLogins logins with a wrong
\* password, one login with the registered password
WrongLogins == 3
ScenarioCalls == WrongLogins + 2

\* requests sent so far
Sent == calls - (MaxCalls - ScenarioCalls)

Quiet == \A p \in Procs : Free(p)

ScenarioRegister(p) ==
    /\ Sent = 0 /\ Quiet
    /\ RegisterFind(p, SeedEmail, "Ann", SeedPassword)

ScenarioWrongLogin(p) ==
    /\ Sent \in 1..WrongLogins /\ Quiet
    /\ LoginCheck(p, SeedEmail, "Wr0ng!pw", "ip1")

ScenarioRightLogin(p) ==
    /\ Sent = WrongLogins + 1 /\ Quiet
    /\ LoginCheck(p, SeedEmail, SeedPassword, "ip1")

\* an empty store
InitScenario ==
    /\ users = {}
    /\ attempts = <<>>
    /\ now = 0
    /\ jwtSecret \in Secrets
    /\ call = [p \in Procs |-> Idle]
    /\ last = Idle
    /\ calls = MaxCalls - ScenarioCalls
    /\ nfaults = 0
    /\ issued = {}
    /\ regOk = [e \in Emails |-> 0]
    /\ entries = {}
    /\ tags = {}
    /\ sd = Serving

NextScenario ==
    \/ \E p \in Procs : ScenarioRegister(p)
    \/ \E p \in Procs : RegisterHash(p)
    \/ \E p \in Procs : RegisterCreate(p)
    \/ \E p \in Procs : ScenarioWrongLogin(p)
    \/ \E p \in Procs : ScenarioRightLogin(p)
    \/ \E p \in Procs : LoginFind(p)
    \/ \E p \in Procs : LoginCompare(p)
    \/ \E p \in Procs : LoginRecord(p)
    \/ Tick

SpecScenario == InitScenario /\ [][NextScenario]_vars

TypeOK ==
    /\ now \in 0..(MaxTicks * TickMinutes)
    /\ calls \in 0..MaxCalls
    /\ jwtSecret \in Secrets
    /\ \A p \in Procs : call[p].pc \in
          {"idle", "find", "hash", "create", "compare", "record",
           "findFirst", "write", "count", "findMany"}
    /\ last.pc \in {"idle", "done"}

(* ======================= properties of the auth flow ==================== *)
\* the record, after a step that accepts a request, of the request accepted:
\* in its slot when it is suspended, in `last` when it has already ended
Accepted == calls' = calls + 1

AcceptedCall ==
    IF \E p \in Procs : call'[p] # call[p]
    THEN call'[CHOOSE p \in Procs : call'[p] # call[p]]
    ELSE last'

\* slot p holds a request of kind op that ends in this step
Ends(p, op) == call[p].op = op /\ call'[p].pc = "idle"

\* failed attempts for an email inside the throttle window, whatever their IP
FailedInWindow(email) ==
    Cardinality({i \in 1..Len(attempts) :
        /\ attempts[i].email = email
        /\ attempts[i].success = FALSE
        /\ attempts[i].createdAt >= now - WindowMinutes})

RateLimited ==
    ErrorResponse(429, "Account temporarily locked due to too many failed attempts")

Unauthorized == ErrorResponse(401, "Invalid credentials")

Conflict == ErrorResponse(400, "User already exists")

\* C1: a login whose throttle check runs (its count read not failing) while
\* the store holds at least 5 failed attempts for its email inside the last
\* 15 minutes ends at once with the 429 lock-out error, and has neither
\* looked the user up nor compared a password.
C1_ThrottleRejects ==
    [][(/\ Accepted
        /\ AcceptedCall.op = "login"
        /\ "count" \notin AcceptedCall.faults
        /\ FailedInWindow(AcceptedCall.email) >= Threshold)
       => (/\ AcceptedCall.pc = "done"
           /\ AcceptedCall.result = RateLimited
           /\ ~AcceptedCall.looked
           /\ ~AcceptedCall.compared)]_vars

\* C2: a register call in which no store or hasher operation failed and
\* that did not itself create the user ends with Conflict (400, 'User
\* already exists'), whatever other register calls overlap it.
C2_OtherRegistersConflict ==
    (last.op = "register" /\ last.faults = {} /\ ~last.created)
       => last.result = Conflict

\* C3: a login whose user lookup finds no row ends with 401 'Invalid
\* credentials' and no data, the very response of a login whose password
\* comparison fails; it is never a 404 and no password is compared.
C3_UnknownEmailUnauthorized ==
    (last.op = "login" /\ last.faults = {} /\ last.looked)
       => /\ (last.user = None \/ ~last.validPassword) => last.result = Unauthorized
          /\ last.user = None => (~last.compared /\ last.result.status # 404)

C3_Witness ==
    /\ last.op = "login" /\ last.faults = {} /\ last.looked
    /\ last.user = None /\ last.result = Unauthorized

\* C4: a login for an existing user with a password other than the one
\* registered ends with 401 'Invalid credentials', issues no token, and
\* appends exactly one LoginAttempt row, for its email, with success false.
C4_WrongPasswordRecorded ==
    [][\A p \in Procs :
         (/\ Ends(p, "login")
          /\ last'.faults = {}
          /\ last'.user # None
          /\ last'.password # last'.user[1].passwordHash.of)
         => (/\ last'.result = Unauthorized
             /\ last'.result.data = None
             /\ issued' = issued
             /\ last'.rows = 1
             /\ Len(attempts') = Len(attempts) + 1
             /\ attempts'[Len(attempts')].email = last'.email
             /\ attempts'[Len(attempts')].success = FALSE
             /\ SubSeq(attempts', 1, Len(attempts)) = attempts)]_vars

C4_Witness ==
    /\ last.op = "login" /\ last.faults = {} /\ last.user # None
    /\ last.password # last.user[1].passwordHash.of
    /\ last.result = Unauthorized /\ last.rows = 1
    /\ Len(attempts) > 0 /\ attempts[Len(attempts)].email = last.email
    /\ attempts[Len(attempts)].success = FALSE

\* C5: a token returned by register or login for user u, presented as
\* 'Bearer <token>' under the secret that signed it and before its expiry,
\* makes authMiddleware call next() with req.user.userId = u; and a login
\* with the registered password for an existing, non-throttled user returns
\* such a token when a secret is configured.
C5_TokenRoundTrip ==
    [][/\ \A i \in issued :
            (/\ Accepted
             /\ AcceptedCall.op = "profile"
             /\ AcceptedCall.header = <<"Bearer", i.token>>
             /\ jwtSecret = i.token.sig
             /\ now < i.token.exp)
            => (AcceptedCall.nextCalled /\ AcceptedCall.userId = i.for)
       /\ \A p \in Procs :
            (/\ Ends(p, "login")
             /\ last'.faults = {}
             /\ last'.user # None
             /\ last'.password = last'.user[1].passwordHash.of
             /\ last'.attemptCount < Threshold
             /\ jwtSecret # "")
            => (/\ last'.result.status = 200
                /\ last'.result.data # None
                /\ last'.result.data[1].user.id = last'.user[1].id
                /\ last'.result.data[1].token.userId = last'.user[1].id
                /\ JwtVerify(last'.result.data[1].token, jwtSecret, now) = "ok"
                /\ [token |-> last'.result.data[1].token,
                    for |-> last'.user[1].id] \in issued')
       /\ \A p \in Procs :
            (Ends(p, "register") /\ last'.result.status = 201)
            => (/\ last'.result.data[1].token.userId = last'.result.data[1].user.id
                /\ [token |-> last'.result.data[1].token,
                    for |-> last'.result.data[1].user.id] \in issued')]_vars

C5_Witness ==
    /\ last.op = "profile" /\ last.nextCalled /\ last.result.status = 200
    /\ \E i \in issued : last.header = <<"Bearer", i.token>> /\ last.userId = i.for

\* C6 as claimed: every login that has ended created exactly one
\* LoginAttempt row, whatever its outcome.
C6_ExactlyOneRow == last.op = "login" => last.rows = 1

\* C6 as amended: a login creates at most one LoginAttempt row: one when it
\* reaches the credential decision and the insert succeeds, none when the
\* user lookup or the password comparison raises or the insert itself fails;
\* no other step of a login writes the log.
C6_AtMostOneRow ==
    [][/\ \A p \in Procs :
            Ends(p, "login")
            => (/\ last'.rows =
                     IF last'.faults \cap {"find", "compare", "record"} # {}
                     THEN 0 ELSE 1
                /\ Len(attempts') - Len(attempts) = last'.rows)
       /\ \A p \in Procs :
            (call'[p].op = "login" /\ call'[p] # call[p])
            => (attempts' = attempts /\ call'[p].rows = 0)]_vars

C6_Witness ==
    /\ last.op = "login" /\ "find" \in last.faults
    /\ last.rows = 0 /\ last.result.status = 500

\* C7: a successful getUserProfile result has the fields id, email, name and
\* createdAt and no other; in particular no passwordHash.
C7_ProfileHidesHash ==
    (last.op = "profile" /\ last.result.status = 200)
       => /\ last.result.data # None
          /\ DOMAIN last.result.data[1] = {"id", "email", "name", "createdAt"}

C7_Witness ==
    /\ last.op = "profile" /\ last.result.status = 200
    /\ \E u \in users : u.id = last.result.data[1].id /\ u.email = last.result.data[1].email

\* C8: no two User rows share an email, and for each email at most one
\* register call has returned success.
C8_EmailUnique ==
    /\ \A u, v \in users : u.email = v.email => u = v
    /\ \A e \in Emails : regOk[e] <= 1

\* two overlapping registers for one email: the second insert was refused
C8_Witness ==
    /\ last.op = "register" /\ last.faults = {} /\ last.looked /\ ~last.created
    /\ last.result.status = 500
    /\ \E u \in users : u.email = last.email

\* what a login returns given its lookup, its comparison and the secret,
\* with no reference to the throttle
ExpectedLogin(c) ==
    IF c.faults \cap {"find", "compare"} # {} THEN <<500, "Error during login">>
    ELSE IF c.user = None \/ c.password # c.user[1].passwordHash.of
         THEN <<401, "Invalid credentials">>
    ELSE IF jwtSecret = "" THEN <<500, "Server configuration error">>
    ELSE <<200, "">>

\* C9: a login whose count read fails logs the error and goes on to the
\* user lookup; it ends with the status and message that its lookup,
\* comparison and token issuance give, the same as a login whose throttle
\* check passed.
C9_ThrottleFailsOpen ==
    [][/\ (/\ Accepted
           /\ AcceptedCall.op = "login"
           /\ "count" \in AcceptedCall.faults)
          => (/\ AcceptedCall.pc = "find"
              /\ "error:Error checking login attempts" \in AcceptedCall.logs)
       /\ \A p \in Procs :
            (/\ Ends(p, "login")
             /\ \/ "count" \in last'.faults
                \/ last'.attemptCount \in 0..(Threshold - 1))
            => <<last'.result.status, last'.result.error>> = ExpectedLogin(last')]_vars

C9_Witness ==
    /\ last.op = "login" /\ "count" \in last.faults
    /\ last.looked /\ last.compared /\ last.result.status = 200

InternalMessage(op) ==
    IF op = "register" THEN "Error registering user"
    ELSE IF op = "login" THEN "Error during login"
    ELSE "Error retrieving user profile"

\* C10 as claimed: a request in which a user lookup, a user insert or a
\* login-attempt insert failed ends with status 500.
C10_StoreFailuresInternal ==
    last.faults \cap {"find", "create", "record"} # {} => last.result.status = 500

\* C10 as amended: a failed user lookup or user insert ends the request with
\* the operation's own 500 error; a failed login-attempt insert, like a
\* failed count read, is logged and swallowed, and the login ends as its
\* lookup, comparison and token issuance decide.
C10_LookupInsertInternal ==
    /\ last.faults \cap {"find", "create"} # {}
          => last.result = ErrorResponse(500, InternalMessage(last.op))
    /\ ("record" \in last.faults /\ last.faults \cap {"find", "compare"} = {})
          => /\ "error:Error recording login attempt" \in last.logs
             /\ <<last.result.status, last.result.error>> = ExpectedLogin(last)

C10_Witness ==
    /\ last.op = "login" /\ "record" \in last.faults
    /\ last.result = Unauthorized

\* C11: a registerUser call that fails (conflict, hashing failure, store
\* failure or token-issuance failure) leaves the set of User rows as it was
\* before the call: no step of a register that ends without status 201 has
\* changed `users`.
C11_NoPartialEffect ==
    [][\A p \in Procs :
          (Ends(p, "register") /\ last'.result.status # 201)
          => (users' = users /\ ~last'.created)]_vars

ServerConfig == ErrorResponse(500, "Server configuration error")

C13_ExpiredVersusInvalid ==
    [][(/\ Accepted
        /\ AcceptedCall.op = "profile"
        /\ AcceptedCall.header # None
        /\ AcceptedCall.header[1] = "Bearer"
        /\ jwtSecret # "")
       => LET c == AcceptedCall
              token == c.header[2]
          IN /\ (token.wellFormed /\ token.sig = jwtSecret /\ now >= token.exp)
                => (/\ c.pc = "done" /\ ~c.nextCalled
                    /\ c.result = ErrorResponse(401, "Unauthorized - Token expired"))
             /\ (~token.wellFormed \/ token.sig # jwtSecret)
                => (/\ c.pc = "done" /\ ~c.nextCalled
                    /\ c.result = ErrorResponse(401, "Unauthorized - Invalid token"))]_vars

C13_Witness ==
    /\ last.op = "profile" /\ ~last.nextCalled
    /\ \E i \in issued : last.header = <<"Bearer", i.token>> /\ now >= i.token.exp
    /\ last.result = ErrorResponse(401, "Unauthorized - Token expired")

\* C15: a getUserProfile whose lookup returns no User row for the id ends
\* with status 404 and error 'User not found', and no data.
C15_UnknownIdNotFound ==
    [][\A p \in Procs :
          (/\ Ends(p, "profile")
           /\ last'.looked
           /\ FindProfileById(call[p].userId) = None)
          => (/\ last'.result = ErrorResponse(404, "User not found")
              /\ last'.result.data = None)]_vars

C15_Witness ==
    /\ last.op = "profile" /\ last.nextCalled /\ last.looked
    /\ \A u \in users : u.id # last.userId
    /\ last.result.status = 404 /\ last.result.error = "User not found"

\* C16: every LoginAttempt row with success = true is appended by the insert
\* step of a login call that had, before that step, found a User row with
\* the row's email and obtained a match from comparing the submitted
\* password with that user's stored hash; rows already present are kept.
C16_SuccessRowsJustified ==
    [][/\ Len(attempts') >= Len(attempts)
       /\ SubSeq(attempts', 1, Len(attempts)) = attempts
       /\ \A i \in (Len(attempts) + 1)..Len(attempts') :
             attempts'[i].success
             => \E p \in Procs :
                   /\ call[p].op = "login" /\ call[p].pc = "record"
                   /\ Ends(p, "login")
                   /\ call[p].email = attempts'[i].email
                   /\ call[p].looked /\ call[p].user # None
                   /\ call[p].user[1].email = attempts'[i].email
                   /\ call[p].compared /\ call[p].validPassword
                   /\ BcryptCompare(call[p].password, call[p].user[1].passwordHash)]_vars

C16_Witness ==
    /\ last.op = "login" /\ last.rows = 1
    /\ last.user # None /\ last.compared /\ last.validPassword
    /\ Len(attempts) > 0
    /\ attempts[Len(attempts)].success
    /\ attempts[Len(attempts)].email = last.email

\* messages of the exceptions the store and the hasher raise
InternalTexts == {"store", "bcrypt", "Unique constraint failed"}

\* the error literals of auth.service.ts
ServiceErrors ==
    {Conflict, Unauthorized, RateLimited, ServerConfig,
     ErrorResponse(404, "User not found"),
     ErrorResponse(500, "Error registering user"),
     ErrorResponse(500, "Error during login"),
     ErrorResponse(500, "Error retrieving user profile")}

\* the request reached registerUser, loginUser or getUserProfile
ServiceCalled(c) ==
    \/ c.op \in {"register", "login"}
    \/ c.op = "profile" /\ c.nextCalled /\ c.userId # 0

\* C18: a registerUser, loginUser or getUserProfile call that ends without
\* its success result ends with one of the service's literal errors, a status
\* code together with its fixed message; the message of an exception raised
\* by the store or the hasher is never the message the caller gets.
C18_ErrorsAreLiterals ==
    ServiceCalled(last)
    => /\ \/ last.result.status \in {200, 201} /\ last.result.data # None
          \/ last.result \in ServiceErrors
       /\ last.result.error \notin InternalTexts
       /\ last.faults # {} => last.result.error = InternalMessage(last.op)
                              \/ last.faults \subseteq {"count", "record"}

C18_Witness ==
    /\ last.op = "register" /\ "create" \in last.faults
    /\ last.result = ErrorResponse(500, "Error registering user")

(* ================== properties of the protected routes ================== *)
ProtectedOps == {"profile"} \cup EntryOps \cup TagOps

\* the four responses authMiddleware itself sends
GateResponses ==
    {ErrorResponse(401, "Unauthorized - Token not provided"),
     ServerConfig,
     ErrorResponse(401, "Unauthorized - Token expired"),
     ErrorResponse(401, "Unauthorized - Invalid token")}

\* the Authorization header starts with 'Bearer ', a secret is configured
\* and the token is well formed, signed with that secret and not expired
Verified(header) ==
    /\ header # None /\ header[1] = "Bearer"
    /\ jwtSecret # ""
    /\ header[2].wellFormed /\ header[2].sig = jwtSecret /\ now < header[2].exp

\* C14: for a request to /api/auth/profile, /api/entries or /api/tags,
\* authMiddleware calls next() exactly when the header is a Bearer header,
\* JWT_SECRET is set and the token verifies; otherwise the request ends at
\* once with one of the middleware's four error responses and no handler
\* runs: every suspended handler belongs to a request that passed the gate,
\* and a step changes entries or tags only on behalf of such a request.
C14_AccessGate ==
    [][/\ Accepted
          => LET c == AcceptedCall
             IN /\ c.op \in ProtectedOps
                /\ c.nextCalled <=> Verified(c.header)
                /\ Verified(c.header) => c.userId = c.header[2].userId
                /\ ~Verified(c.header)
                   => (/\ c.pc = "done" /\ c.result \in GateResponses
                       /\ ~c.looked /\ ~c.found /\ ~c.wrote
                       /\ call' = call)
       /\ \A p \in Procs : call'[p].pc # "idle" => call'[p].nextCalled
       /\ (last' # last) => (last'.nextCalled \/ last'.result \in GateResponses)
       /\ (entries' # entries \/ tags' # tags)
          => \E p \in Procs : call[p].nextCalled /\ call[p].pc = "write"]_vars

C14_Witness ==
    /\ last.op = "deleteEntry" /\ last.header = <<"Bearer", Forged>>
    /\ ~last.nextCalled /\ ~last.looked
    /\ last.result = ErrorResponse(401, "Unauthorized - Invalid token")
    /\ entries = SeedEntries

\* C19: an entry request (get by id, update, delete, export) whose lookup
\* finds no entry with that id for the authenticated user is answered with
\* status 404 and error 'Entry not found'.
C19_MissingEntryNotFound ==
    (last.op \in EntryOps /\ last.nextCalled /\ last.looked /\ ~last.found)
    => last.result = ErrorResponse(404, "Entry not found")

\* C20: an updateTag or deleteTag request whose lookup finds no tag with that
\* id for the user fails with the error 'Tag not found', answered with
\* status 404, and has attempted no update or delete.
C20_MissingTagNotFound ==
    (last.op \in TagOps /\ last.nextCalled /\ last.looked /\ ~last.found)
    => (last.result = ErrorResponse(404, "Tag not found") /\ ~last.wrote)

(* ===================== properties of the login log ====================== *)
\* the success flags, in insertion order, of the rows recorded for an email
FlagsFor(email) ==
    LET rows == SelectSeq(attempts, LAMBDA r : r.email = email)
    IN [i \in 1..Len(rows) |-> rows[i].success]

\* C17: when no store, hasher or token operation fails, a login call appends
\* exactly one LoginAttempt row, for its email, with success = true exactly
\* when the call returned a token; and once the client that registered
\* SeedEmail, sent WrongLogins wrong-password logins and then one correct
\* login has its last response, the log holds for SeedEmail WrongLogins rows
\* with success = false followed by one row with success = true.
C17_OneRowPerLogin ==
    [][/\ \A p \in Procs :
            (Ends(p, "login") /\ last'.faults = {} /\ jwtSecret # "")
            => (/\ Len(attempts') = Len(attempts) + 1
                /\ SubSeq(attempts', 1, Len(attempts)) = attempts
                /\ attempts'[Len(attempts')].email = last'.email
                /\ attempts'[Len(attempts')].success
                      <=> (last'.result.data # None
                           /\ last'.result.data[1].token.wellFormed)
                /\ last'.rows = 1)
       /\ (/\ calls' = MaxCalls /\ \A p \in Procs : call'[p].pc = "idle"
           /\ nfaults' = 0 /\ jwtSecret' # "")
          => (/\ Len(FlagsFor(SeedEmail)') = WrongLogins + 1
              /\ \A i \in 1..WrongLogins : ~FlagsFor(SeedEmail)'[i]
              /\ FlagsFor(SeedEmail)'[WrongLogins + 1]
              /\ Len(attempts') = WrongLogins + 1)]_vars

C17_Witness ==
    /\ calls = MaxCalls /\ Quiet /\ nfaults = 0 /\ jwtSecret # ""
    /\ last.op = "login" /\ last.result.status = 200
    /\ FlagsFor(SeedEmail) = <<FALSE, FALSE, FALSE, TRUE>>

(* ===================== properties of entries and tags =================== *)
\* the step is the delete of a deleteTag request, which takes the tag off the
\* entries that carry it and changes nothing else of them
DeletesTag ==
    \E p \in Procs :
       /\ call[p].op = "deleteTag" /\ call[p].pc = "write"
       /\ tags' # tags
       /\ entries' = {[e EXCEPT !.tags = @ \ {call[p].id}] : e \in entries}

\* C21: getEntryById and exportEntry return an entry only when its userId is
\* the caller's; updateEntry and deleteEntry change or remove an entry only
\* when its userId is the caller's, and an updated entry keeps its id and
\* owner (the delete of a tag, which is not an entry operation, only takes
\* that tag off entries); a by-id request for an entry of another user ends
\* with an error and leaves every entry as it was.
C21_EntryIsolation ==
    [][/\ \A p \in Procs :
            (/\ call[p].op \in {"getEntryById", "exportEntry"}
             /\ call'[p].pc = "idle"
             /\ last'.result.status = 200)
            => (/\ last'.result.data # None
                /\ last'.result.data[1].id = call[p].id
                /\ last'.result.data[1].userId = call[p].userId)
       /\ \A e \in entries \ entries' :
            \/ DeletesTag
            \/ \E p \in Procs :
               /\ call[p].op \in {"updateEntry", "deleteEntry"}
               /\ call[p].pc = "write" /\ call'[p].pc = "idle"
               /\ call[p].id = e.id /\ call[p].userId = e.userId
               /\ call[p].found
       /\ \A e \in entries' \ entries :
            \/ DeletesTag
            \/ \E p \in Procs :
               /\ call[p].pc = "write" /\ call'[p].pc = "idle"
               /\ call[p].id = e.id /\ call[p].userId = e.userId
               /\ \/ call[p].op = "createEntry"
                     /\ ~\E o \in entries : o.id = e.id
                  \/ call[p].op = "updateEntry"
                     /\ \E o \in entries \ entries' :
                           o.id = e.id /\ o.userId = e.userId
       /\ \A p \in Procs :
            (/\ call[p].op \in EntryOps /\ call[p].pc = "findFirst"
             /\ call'[p] # call[p]
             /\ ~\E e \in entries : e.id = call[p].id /\ e.userId = call[p].userId)
            => (/\ call'[p].pc = "idle"
                /\ last'.result.status >= 400 /\ last'.result.data = None
                /\ ~last'.wrote
                /\ entries' = entries)]_vars

C21_Witness ==
    /\ last.op = "deleteEntry" /\ last.userId = 2 /\ last.id = "e1"
    /\ last.looked /\ ~last.found /\ ~last.wrote
    /\ last.result.status >= 400
    /\ \E e \in entries : e.id = "e1" /\ e.userId = 1

\* C22: for page >= 1 and limit >= 1, getEntries returns the rows at
\* positions (page-1)*limit + 1 .. (page-1)*limit + limit of the user's
\* matching entries in createdAt order (fewer when the entries run out), with
\* total = the count it read, totalPages = the least n with n*limit >= total,
\* hasPrevPage true exactly when page > 1 and hasNextPage true exactly when
\* page*limit < total.
C22_Pagination ==
    [][\A p \in Procs :
          LET c == call[p]
              q == c.body[1]
              rows == {e \in entries :
                          e.userId = c.userId /\ (q.tagId = "" \/ q.tagId \in e.tags)}
          IN /\ (c.op = "getEntries" /\ c.pc = "count" /\ call'[p].pc = "findMany")
                => call'[p].total = Cardinality(rows)
             /\ (/\ c.op = "getEntries" /\ c.pc = "findMany" /\ call'[p].pc = "idle"
                 /\ last'.result.status = 200
                 /\ q.page >= 1 /\ q.limit >= 1 /\ c.total >= 0)
                => LET d == last'.result.data[1]
                       g == d.pagination
                       skip == (q.page - 1) * q.limit
                       n == Cardinality(rows)
                   IN /\ g.total = c.total /\ g.page = q.page /\ g.limit = q.limit
                      /\ g.totalPages * q.limit >= c.total
                      /\ (g.totalPages - 1) * q.limit < c.total
                      /\ g.totalPages >= 0
                      /\ g.hasPrevPage <=> (q.page > 1)
                      /\ g.hasNextPage <=> (q.page * q.limit < c.total)
                      /\ Len(d.entries) =
                            IF n <= skip THEN 0
                            ELSE IF n - skip < q.limit THEN n - skip ELSE q.limit
                      /\ \A j \in 1..Len(d.entries) :
                            /\ d.entries[j] \in rows
                            /\ \A k \in 1..Len(d.entries) :
                                  k # j => d.entries[k] # d.entries[j]
                            /\ Cardinality({e \in rows :
                                  Before(e, d.entries[j], q.sort)}) <= skip + j - 1
                            /\ Cardinality({e \in rows :
                                  ~Before(d.entries[j], e, q.sort)}) >= skip + j]_vars

C22_Witness ==
    /\ last.op = "getEntries" /\ last.result.status = 200
    /\ last.body[1].page = 2 /\ last.body[1].limit = 1 /\ last.total = 3
    /\ last.result.data[1].pagination.totalPages = 3
    /\ last.result.data[1].pagination.hasNextPage
    /\ last.result.data[1].pagination.hasPrevPage
    /\ Len(last.result.data[1].entries) = 1

(* ======================= properties of the process ====================== *)
Signalled == \E i \in 1..SdSignals : sd.inv[i].pc # "idle"

\* C23: once gracefulShutdown has been invoked the process ends with
\* process.exit; with code 0 only when the server, if one was started, has
\* closed and after that the database has been disconnected; with code 1
\* exactly when prisma.$disconnect() raised or a forceExit timer fired, which
\* it does only TimeoutSeconds after its invocation began and while that
\* invocation has not completed.
C23_ShutdownExits ==
    /\ [](sd.exit \in {-1, 0, 1})
    /\ [](sd.exit = 0
          => /\ sd.db = "disconnected"
             /\ sd.server \in {"none", "closed"}
             /\ sd.order = IF sd.server = "none" THEN <<"disconnect">>
                           ELSE <<"close", "disconnect">>
             /\ ~sd.raised /\ ~sd.timedOut)
    /\ [](sd.exit = 1 <=> (sd.raised \/ sd.timedOut))
    /\ [](sd.timedOut
          => \E i \in 1..SdSignals :
                /\ sd.inv[i].timer = "armed" /\ sd.inv[i].pc \in {"close", "disconnect"}
                /\ sd.clock >= sd.inv[i].deadline)
    /\ [](sd.exit = -1 => \A i \in 1..SdSignals :
             sd.inv[i].timer = "armed" => sd.clock <= sd.inv[i].deadline)
    /\ (Signalled ~> sd.exit # -1)

C23_Witness ==
    /\ sd.exit = 0 /\ sd.order = <<"close", "disconnect">>
    /\ sd.server = "closed" /\ sd.db = "disconnected" /\ sd.clock > 0

(* ==================== more properties of the auth flow ================== *)
\* the throttle's count has been read (or the read has raised)
CountRead(c) == c.attemptCount >= 0 \/ "count" \in c.faults

\* C24: a login call awaits its steps one at a time and in this order: the
\* throttle's count, the user lookup, the password comparison (when a user
\* was found), the LoginAttempt insert, and only then token issuance: a call
\* waiting for the lookup has read the count and not looked up, compared or
\* inserted; one waiting for the comparison has also looked up; one waiting
\* for the insert has also compared if a user was found; and a token is
\* issued only in the step in which the insert has returned.
C24_LoginStepOrder ==
    [][/\ \A p \in Procs :
            call'[p].op = "login"
            => LET c == call'[p]
               IN /\ c.pc \in {"find", "compare", "record"}
                  /\ CountRead(c) /\ c.rows = 0 /\ c.result = NoResult
                  /\ c.pc = "find" => ~c.looked /\ ~c.compared
                  /\ c.pc = "compare" => c.looked /\ c.user # None /\ ~c.compared
                  /\ c.pc = "record" => c.looked /\ (c.user # None => c.compared)
                  /\ call[p] # c
                     => \/ call[p].pc = "idle" /\ c.pc = "find"
                        \/ call[p].pc = "find" /\ c.pc \in {"compare", "record"}
                        \/ call[p].pc = "compare" /\ c.pc = "record"
       /\ \A p \in Procs :
            (Ends(p, "login") /\ last'.result.data # None)
            => (/\ call[p].pc = "record"
                /\ last'.looked /\ last'.compared /\ CountRead(last')
                /\ last'.rows = 1 \/ "record" \in last'.faults
                /\ issued' = issued \cup
                      {[token |-> last'.result.data[1].token,
                        for |-> last'.user[1].id]})
       /\ (issued' # issued /\ \E p \in Procs : call[p].op = "login" /\ call'[p] # call[p])
          => \E p \in Procs : Ends(p, "login") /\ last'.result.data # None]_vars

C24_Witness ==
    /\ last.op = "login" /\ last.result.data # None
    /\ last.attemptCount >= 0 /\ last.looked /\ last.compared /\ last.rows = 1

\* C25: no step of a register, login or getProfile call removes or alters a
\* LoginAttempt row: every step leaves the rows already in the log in place,
\* in order, and a login step appends at most one row; so while the clock
\* stands still the number of failed attempts counted for an email and
\* address never goes down, not even through a successful login.
C25_LogAppendOnly ==
    [][/\ Len(attempts') >= Len(attempts)
       /\ Len(attempts') <= Len(attempts) + 1
       /\ SubSeq(attempts', 1, Len(attempts)) = attempts
       /\ Len(attempts') > Len(attempts)
          => \E p \in Procs : Ends(p, "login") /\ call[p].pc = "record"
       /\ now' = now
          => \A e \in Emails, ip \in SeedIps :
                CountRecentFailed(e, ip)' >= CountRecentFailed(e, ip)]_vars

C25_Witness ==
    /\ last.op = "login" /\ last.result.status = 200 /\ last.rows = 1
    /\ Len(attempts) = Threshold
    /\ \A i \in 1..(Threshold - 1) : ~attempts[i].success
    /\ attempts[Threshold].success
    /\ CountRecentFailed(last.email, last.ip) = Threshold - 1

\* C26: the count a login call reads for the throttle is the number of
\* LoginAttempt rows that are failed, not older than the window, and carry
\* both the call's email and the call's client address: failed rows of the
\* same email from another address are not counted.
C26_CountPerEmailAndIp ==
    [][\A p \in Procs :
         (call[p].pc = "idle" /\ call'[p].op = "login"
            /\ call'[p].attemptCount >= 0)
         => call'[p].attemptCount =
              Cardinality({i \in 1..Len(attempts) :
                  /\ attempts[i].email = call'[p].email
                  /\ attempts[i].ipAddress = call'[p].ip
                  /\ ~attempts[i].success
                  /\ attempts[i].createdAt >= now - WindowMinutes})]_vars

C26_Witness ==
    \E p \in Procs :
        /\ call[p].op = "login" /\ call[p].pc = "find"
        /\ call[p].attemptCount = 0
        /\ Cardinality({i \in 1..Len(attempts) :
              /\ attempts[i].email = call[p].email
              /\ attempts[i].ipAddress # call[p].ip
              /\ ~attempts[i].success
              /\ attempts[i].createdAt >= now - WindowMinutes}) = Threshold - 1

\* C27: login calls do not exclude one another: a call whose count read
\* returned less than the threshold goes on to the credential check whatever
\* another call is doing, and the insert of a failing call's attempt does not
\* look at the log again: it appends the failed row even when rows inserted
\* by other calls since its own read have filled the window.
C27_NoMutualExclusion ==
    [][\A p \in Procs :
         /\ (call[p].pc = "idle" /\ call'[p].op = "login"
               /\ call'[p].attemptCount \in 0..(Threshold - 1))
            => call'[p].pc = "find"
         /\ (Ends(p, "login") /\ call[p].pc = "record"
               /\ ~AttemptSuccess(call[p]) /\ "record" \notin last'.faults)
            => /\ attempts' = Append(attempts,
                     [email |-> call[p].email, ipAddress |-> call[p].ip,
                      success |-> FALSE, createdAt |-> now, userId |-> None])
               /\ last'.result.status = 401]_vars

\* two failing logins of one email have run; the one that finished last had
\* read a count of 4, so its read preceded the other's insert, and the other,
\* which read no later than it finished, had read 4 as well: six failed rows
C27_Witness ==
    /\ calls = 2 /\ \A p \in Procs : call[p].pc = "idle"
    /\ last.op = "login" /\ last.result.status = 401 /\ last.rows = 1
    /\ last.attemptCount = Threshold - 1
    /\ now = 0
    /\ CountRecentFailed(last.email, last.ip) = Threshold + 1

\* C28: a login call that has recorded a successful attempt returns a token:
\* whenever a finished login call wrote a row with success=true, its result
\* carries a token.
C28_SuccessRowThenToken ==
    (/\ last.op = "login" /\ last.rows = 1
     /\ last.user # None /\ last.validPassword)
    => last.result.data # None

\* C29: every LoginAttempt row has no user: userId is null in each row of
\* the log, the rows of successful logins, whose user was found, included.
C29_AttemptsHaveNoUser ==
    \A i \in 1..Len(attempts) : attempts[i].userId = None

C29_Witness ==
    /\ last.op = "login" /\ last.user # None /\ last.rows = 1
    /\ attempts # <<>>
    /\ LET row == attempts[Len(attempts)]
       IN /\ row.success /\ row.email = last.user[1].email
          /\ row.userId = None

(* ==================== more properties of entries and tags ============== *)
\* C30: each tag connected to an entry belongs to the user of the entry.
C30_TagsOfOwner ==
    \A e \in entries : \A t \in tags :
        t.id \in e.tags => t.userId = e.userId

====
